---- MODULE Spec2Model ----
(***************************************************************************)
(* A model of redis_cache.Cache (src/redis_cache/cache.py): the namespaced *)
(* cache over Redis, its redis_lock based read/write locks and the         *)
(* dog-pile-safe memoizer Cache.keep.                                      *)
(*                                                                         *)
(* Strings are sequences of tokens; the token ":" is the separator the     *)
(* code formats keys with, so that key formatting is concatenation and a   *)
(* collision of two keys is a fact about the code, not about the model.    *)
(* Python values are records [t |-> type name, s |-> text of the value].   *)
(* Time advances in steps of TickSeconds; every Redis entry carries its    *)
(* remaining time to live in seconds.                                      *)
(***************************************************************************)
EXTENDS Integers, Sequences, FiniteSets, TLC

VARIABLES
    cfg,        \* the Cache instance's configuration (serializer, save_empty)
    fn,         \* the wrapped function of the memoizer: argument tuple -> value
    redis,      \* the Redis keyspace: key -> [val, owner, ttl]
    pc,         \* where each caller is inside its current call
    op,         \* the call each caller is executing
    ret,        \* what the call that finished last returned or raised; cleared
                \* when a caller enters a with-block
    alive,      \* FALSE once the caller's process has died
    clock,      \* number of ticks so far
    waited,     \* seconds each caller has spent blocked in Lock.acquire, counted
                \* until they exceed the lock's expiry
    fnCalls,    \* per argument tuple: how often the wrapped function ran
    computed,   \* per argument tuple: the value the wrapped function last returned
    finished,   \* per argument tuple: some memoized call has returned a value
    raised      \* per argument tuple: the wrapped function has raised

vars == <<cfg, fn, redis, pc, op, ret, alive, clock, waited,
          fnCalls, computed, finished, raised>>

\* the history of the memoized function
hist == <<fnCalls, computed, finished, raised>>

\* the callers' processes and the time
env == <<alive, clock, waited>>

\* what is fixed when the cache is constructed and the function decorated
fixed == <<cfg, fn>>

----------------------------------------------------------------------------
(* Bounds of the model *)

NumProcs == 2
MaxTicks == 4

(* Program constants *)

LockExpire == 60
DefaultTTL == 300
KeepTTL == 100

Procs == 1..NumProcs

----------------------------------------------------------------------------
(* Python values *)

PyNone == [t |-> "NoneType", s |-> <<>>]
PyStr(s) == [t |-> "str", s |-> s]
PyInt(s) == [t |-> "int", s |-> s]
PyTuple(s) == [t |-> "tuple", s |-> s]
PyList(s) == [t |-> "list", s |-> s]
PyTrue == [t |-> "bool", s |-> <<"True">>]
PyZero == PyInt(<<"0">>)

\* "no value yet" in the history variables; never a Python value
NoValue == [t |-> "-", s |-> <<>>]

\* hasattr(value, '__len__') and not len(value)
HasLen(v) == v.t \in {"str", "tuple", "list"}

\* value is None, or has a length of zero
Empty(v) == v = PyNone \/ (HasLen(v) /\ Len(v.s) = 0)

\* _skip with "or not self.save_empty" in the place of "and not self.save_empty"
SkipUnlessSaveEmpty(c, v) == Empty(v) \/ ~c.save_empty

\* a skip policy that takes only None for empty
SkipNoneOnly(c, v) == v = PyNone /\ ~c.save_empty

\* Cache._skip, for a cache configured as c
_skip(c, v) ==
    (v = PyNone \/ (HasLen(v) /\ Len(v.s) = 0)) /\ ~c.save_empty

----------------------------------------------------------------------------
(* Serializer binding: self._dumps / self._loads with the serializer chosen
   in Cache.__init__, followed by the Redis client's own encoding of the
   value to bytes and its decoding of the response to str. *)

JsonType(t) ==
    CASE t = "NoneType" -> "null"
      [] t = "str" -> "string"
      [] t = "int" -> "number"
      [] t = "bool" -> "bool"
      [] OTHER -> "array"

PyType(j) ==
    CASE j = "null" -> "NoneType"
      [] j = "string" -> "str"
      [] j = "number" -> "int"
      [] j = "bool" -> "bool"
      [] OTHER -> "list"

\* str(value), as the Redis client applies it to a value that is not bytes
PyStrOf(v) ==
    CASE v.t = "NoneType" -> <<"None">>
      [] v.t = "tuple" -> <<"(">> \o v.s \o <<")">>
      [] v.t = "list" -> <<"[">> \o v.s \o <<"]">>
      [] OTHER -> v.s

\* _dumps whose structured serializer writes every value as a string
DumpsAsText(c, v) ==
    CASE c.serializer = "json" -> [f |-> "json", t |-> "string", s |-> v.s]
      [] c.serializer = "pickle" -> [f |-> "pickle", t |-> "str", s |-> v.s]
      [] OTHER -> [f |-> "raw", t |-> "str", s |-> PyStrOf(v)]

_dumps(c, v) ==
    CASE c.serializer = "json" -> [f |-> "json", t |-> JsonType(v.t), s |-> v.s]
      [] c.serializer = "pickle" -> [f |-> "pickle", t |-> v.t, s |-> v.s]
      [] OTHER -> [f |-> "raw", t |-> "str", s |-> PyStrOf(v)]

_loads(c, e) ==
    CASE c.serializer = "json" -> [t |-> PyType(e.t), s |-> e.s]
      [] c.serializer = "pickle" -> [t |-> e.t, s |-> e.s]
      [] OTHER -> PyStr(e.s)

----------------------------------------------------------------------------
(* Key naming *)

RECURSIVE rstrip(_)
\* str.rstrip(":")
rstrip(s) ==
    IF s # <<>> /\ s[Len(s)] = ":" THEN rstrip(SubSeq(s, 1, Len(s) - 1)) ELSE s

\* Cache.__init__: the name and the prefix of an instance
NewCache(name, prefix) == [name |-> name, prefix |-> rstrip(prefix)]

\* Cache() with its default name and prefix
DefaultCache == NewCache(<<"1">>, <<"redis-cache", ":", "bucket">>)

\* key_prefix, as the usage docstring shows it: prefix:name
key_prefix(c) == c.prefix \o <<":">> \o c.name

\* get_key, as the usage docstring shows it: prefix:name:key
get_key(c, k) == key_prefix(c) \o <<":">> \o k

\* BaseCache.lock: the Redis key of Lock(client, key_prefix:name)
lock(c, name) == <<"lock", ":">> \o key_prefix(c) \o <<":">> \o name

\* a read_lock that takes the lock of the writers
ReadLockAsWriteLock(c, name) == lock(c, name \o <<":", "write">>)

read_lock(c, name) == lock(c, name \o <<":", "read">>)

write_lock(c, name) == lock(c, name \o <<":", "write">>)

----------------------------------------------------------------------------
(* The Redis keyspace *)

Present(k) == k \in DOMAIN redis

DataEntry(e, ttl) == [val |-> e, owner |-> 0, ttl |-> ttl]

LockEntry(p) ==
    [val |-> [f |-> "lockid", t |-> "bytes", s |-> <<>>], owner |-> p,
     ttl |-> LockExpire]

\* SETEX key ttl value (also SET key value NX EX ttl once the key is known free)
RedisSetEx(r, k, e) == [x \in DOMAIN r \cup {k} |-> IF x = k THEN e ELSE r[x]]

\* a DEL that removes nothing
RedisDelNothing(r, ks) == r

\* DEL keys
RedisDel(r, ks) == [x \in DOMAIN r \ ks |-> r[x]]

\* RedisMap.__getitem__ as the memoizer and Cache.get use it: the loaded
\* value, or PyNone where it raises KeyError (absent key, or a value that
\* loads to None)
GetItem(c, k) ==
    IF Present(get_key(c, k))
    THEN _loads(cfg, redis[get_key(c, k)].val)
    ELSE PyNone

\* Cache.get with one key and no default
get(c, k) == GetItem(c, k)

\* a is a prefix of b
IsPrefix(a, b) == Len(a) <= Len(b) /\ SubSeq(b, 1, Len(a)) = a

\* the keys RedisMap.clear scans for: those that match key_prefix:*
ScanKeys(r, c) == {x \in DOMAIN r : IsPrefix(key_prefix(c) \o <<":">>, x)}

\* RedisMap.mget: MGET of the store keys, each answer loaded; None for a
\* key that does not exist
mget(c, ks) ==
    [i \in 1..Len(ks) |->
        LET x == get_key(c, ks[i])
        IN IF Present(x) THEN _loads(cfg, redis[x].val) ELSE PyNone]

RECURSIVE PipeSetEx(_, _, _, _, _)
\* Cache.set, lines 222-228: the pipeline of SETEX commands, one for each
\* pair whose value is not skipped, in the order of the pairs
PipeSetEx(r, c, ks, vs, ttl) ==
    IF ks = <<>> THEN r
    ELSE PipeSetEx(IF _skip(cfg, vs[1]) THEN r
                   ELSE RedisSetEx(r, get_key(c, ks[1]),
                                   DataEntry(_dumps(cfg, vs[1]), ttl)),
                   c, Tail(ks), Tail(vs), ttl)

\* RedisMap.ttl, also get_ttl: TTL of the store key, -2 when the key does not
\* exist
get_ttl(c, k) == IF Present(get_key(c, k)) THEN redis[get_key(c, k)].ttl ELSE -2

----------------------------------------------------------------------------
(* Memoization keys (Cache.keep) *)

RECURSIVE Join(_)
\* the texts of the elements of a tuple, separated by commas
Join(ts) ==
    IF ts = <<>> THEN <<>>
    ELSE IF Len(ts) = 1 THEN ts[1]
    ELSE ts[1] \o <<",">> \o Join(Tail(ts))

\* json.dumps of one value
JsonText(v) ==
    CASE v.t = "NoneType" -> <<"null">>
      [] v.t = "str" -> <<"\"">> \o v.s \o <<"\"">>
      [] v.t \in {"tuple", "list"} -> <<"[">> \o v.s \o <<"]">>
      [] OTHER -> v.s

\* repr of one value
PyRepr(v) ==
    CASE v.t = "NoneType" -> <<"None">>
      [] v.t = "str" -> <<"'">> \o v.s \o <<"'">>
      [] v.t = "tuple" -> <<"(">> \o v.s \o <<")">>
      [] v.t = "list" -> <<"[">> \o v.s \o <<"]">>
      [] OTHER -> v.s

\* pickle.dumps of one value: the type is part of the pickle
PickleText(v) == <<v.t>> \o v.s

\* serializer((args, kwargs)) if serialize_args else str((args, kwargs)),
\* with kwargs = {}
argkey(c, serialize_args, args) ==
    IF ~serialize_args
    THEN <<"(", "(">> \o Join([i \in 1..Len(args) |-> PyRepr(args[i])])
           \o (IF Len(args) = 1 THEN <<",">> ELSE <<>>) \o <<")", ",", "{}", ")">>
    ELSE IF c.serializer = "pickle"
    THEN <<"b'", "(">> \o Join([i \in 1..Len(args) |-> PickleText(args[i])]) \o <<")", "{}", "'">>
    ELSE <<"[", "[">> \o Join([i \in 1..Len(args) |-> JsonText(args[i])]) \o <<"]", ",", "{}", "]">>

\* prefix = "" if not prefix else prefix.rstrip(":") + ":"
keep_prefix(prefix) == IF prefix = <<>> THEN <<>> ELSE rstrip(prefix) \o <<":">>

\* key = "{}{}:{}".format(prefix, format_obj_name(obj), argkey)
memo_key(c, prefix, fname, serialize_args, args) ==
    keep_prefix(prefix) \o fname \o <<":">> \o argkey(c, serialize_args, args)

----------------------------------------------------------------------------
(* Callers *)

\* the wrapped function of the memoizer: format_obj_name(obj)
FuncName == <<"expensive_func">>

\* argument tuples the callers call the memoized function with
Arg5 == <<PyInt(<<"5">>)>>
Arg6 == <<PyInt(<<"6">>)>>
ArgTuple == <<PyTuple(<<"1", ",", "2">>)>>
ArgList == <<PyList(<<"1", ",", "2">>)>>
Args == {Arg5, Arg6, ArgTuple, ArgList}

\* values the wrapped function returns and callers set
Values ==
    {PyNone, PyStr(<<>>), PyStr(<<"best">>), PyInt(<<"5000">>),
     PyTuple(<<"1", ",", "2">>)}

\* user keys of the store operations and names of the manual locks
UserKeys == {<<"test">>}

Configs == [serializer : {"json", "pickle", "plain"}, save_empty : BOOLEAN]

\* the wrapped functions: any value for the arguments (5,), and a value of
\* its own for each of the other argument tuples
Fns ==
    {[a \in Args |->
        CASE a = Arg5 -> v
          [] a = Arg6 -> PyInt(<<"6000">>)
          [] a = ArgTuple -> PyStr(<<"tuple">>)
          [] OTHER -> PyStr(<<"list">>)] : v \in Values}

NoOp ==
    [kind |-> "-", c |-> DefaultCache, key |-> <<>>, lock |-> <<>>, outer |-> <<>>,
     role |-> "write", val |-> NoValue, ttl |-> 0, args |-> <<>>, r |-> NoValue,
     later |-> FALSE, hit |-> FALSE, exc |-> "", keys |-> <<>>, vals |-> <<>>]

NoRet == [p |-> 0, op |-> NoOp, kind |-> "-", v |-> NoValue]
Return(p, v) == [p |-> p, op |-> op[p], kind |-> "return", v |-> v]
Raise(p, name) ==
    [p |-> p, op |-> op[p], kind |-> "raise", v |-> [t |-> "Exception", s |-> <<name>>]]

\* the override prefixes of keep
Prefixes == {<<>>, <<"foo">>, <<"foo", ":">>}

\* the key of the memoized call of FuncName with args, under
\* keep(ttl, prefix, serialize_args)
KeepKey(prefix, serialize_args, a) == memo_key(cfg, prefix, FuncName, serialize_args, a)

\* ttl or self._ttl
TTLOr(ttl) == IF ttl # 0 THEN ttl ELSE DefaultTTL

\* the Redis key k holds the lock id of caller p
Owns(p, k) == Present(k) /\ redis[k].owner = p

\* the caller is inside the with-block of op[p].lock
InScope(p) == pc[p] \in {"k_get", "k_fn", "s_get", "s_set", "m_get", "release"}

\* the lock keys whose with-blocks the caller is inside
Scopes(p) ==
    (IF InScope(p) THEN {op[p].lock} ELSE {})
        \cup (IF op[p].outer # <<>> THEN {op[p].outer} ELSE {})

Init ==
    /\ cfg \in Configs
    /\ fn \in Fns
    /\ redis = <<>>
    /\ pc = [p \in Procs |-> "idle"]
    /\ op = [p \in Procs |-> NoOp]
    /\ ret = NoRet
    /\ alive = [p \in Procs |-> TRUE]
    /\ clock = 0
    /\ waited = [p \in Procs |-> 0]
    /\ fnCalls = [a \in Args |-> 0]
    /\ computed = [a \in Args |-> NoValue]
    /\ finished = [a \in Args |-> FALSE]
    /\ raised = [a \in Args |-> FALSE]

\* a caller may start its call; every caller makes one call, and callers
\* are numbered in the order in which they start
CanStart(p) ==
    alive[p] /\ pc[p] = "idle" /\ (IF p = 1 THEN TRUE ELSE pc[p - 1] # "idle")

\* a memoizer that goes on to its second read without the write lock
KeepStartNoLock(p, a, ttl, prefix, serialize_args) ==
    /\ CanStart(p)
    /\ LET key == KeepKey(prefix, serialize_args, a)
           r == GetItem(DefaultCache, key)
           call == [NoOp EXCEPT !.kind = "keep", !.key = key,
                                !.lock = write_lock(DefaultCache, key),
                                !.ttl = ttl, !.args = a, !.later = finished[a]]
       IN IF r # PyNone
          THEN /\ ret' = [p |-> p, op |-> [call EXCEPT !.hit = TRUE],
                           kind |-> "return", v |-> r]
               /\ finished' = [finished EXCEPT ![a] = TRUE]
               /\ pc' = [pc EXCEPT ![p] = "done"]
               /\ UNCHANGED op
          ELSE /\ pc' = [pc EXCEPT ![p] = "k_get"]
               /\ op' = [op EXCEPT ![p] = call]
               /\ ret' = NoRet
               /\ UNCHANGED finished
    /\ UNCHANGED <<fixed, redis, env, fnCalls, computed, raised>>

\* memoizer, lines 318-324: the key and the first, lock-free read
KeepStart(p, a, ttl, prefix, serialize_args) ==
    /\ CanStart(p)
    /\ LET key == KeepKey(prefix, serialize_args, a)
           r == GetItem(DefaultCache, key)
           call == [NoOp EXCEPT !.kind = "keep", !.key = key,
                                !.lock = write_lock(DefaultCache, key),
                                !.ttl = ttl, !.args = a, !.later = finished[a]]
       IN IF r # PyNone
          THEN /\ ret' = [p |-> p, op |-> [call EXCEPT !.hit = TRUE],
                           kind |-> "return", v |-> r]
               /\ finished' = [finished EXCEPT ![a] = TRUE]
               /\ pc' = [pc EXCEPT ![p] = "done"]
               /\ UNCHANGED op
          ELSE /\ pc' = [pc EXCEPT ![p] = "acquire"]
               /\ op' = [op EXCEPT ![p] = call]
               /\ ret' = NoRet
               /\ UNCHANGED finished
    /\ UNCHANGED <<fixed, redis, env, fnCalls, computed, raised>>

\* where the with-block of a call starts, once its lock is acquired
Body(o) ==
    CASE o.kind = "keep" -> "k_get"
      [] o.kind = "manual" /\ o.outer = <<>> -> "m_get"
      [] OTHER -> "s_get"

\* an acquire that sets the lock key without NX, whether it exists or not
AcquireNoNX(p) ==
    /\ alive[p] /\ pc[p] = "acquire"
    /\ redis' = RedisSetEx(redis, op[p].lock, LockEntry(p))
    /\ pc' = [pc EXCEPT ![p] = Body(op[p])]
    /\ waited' = [waited EXCEPT ![p] = 0]
    /\ UNCHANGED <<fixed, op, ret, alive, clock, hist>>

\* an acquire with timeout=expire: it gives up with an error once the caller
\* has waited for the lock's expiry time
AcquireWithTimeout(p) ==
    /\ alive[p] /\ pc[p] = "acquire"
    /\ IF ~Present(op[p].lock)
       THEN /\ redis' = RedisSetEx(redis, op[p].lock, LockEntry(p))
            /\ pc' = [pc EXCEPT ![p] = Body(op[p])]
            /\ waited' = [waited EXCEPT ![p] = 0]
            /\ UNCHANGED <<op, ret>>
       ELSE /\ waited[p] >= LockExpire
            /\ ret' = Raise(p, "LockTimeout")
            /\ pc' = [pc EXCEPT ![p] = "done"]
            /\ op' = [op EXCEPT ![p] = NoOp]
            /\ UNCHANGED <<redis, waited>>
    /\ UNCHANGED <<fixed, alive, clock, hist>>

\* Lock.__enter__: acquire(blocking=True), SET lock-key id NX EX 60; blocks
\* while the key exists
Acquire(p) ==
    /\ alive[p] /\ pc[p] = "acquire"
    /\ ~Present(op[p].lock)
    /\ redis' = RedisSetEx(redis, op[p].lock, LockEntry(p))
    /\ pc' = [pc EXCEPT ![p] = Body(op[p])]
    /\ waited' = [waited EXCEPT ![p] = 0]
    /\ UNCHANGED <<fixed, op, ret, alive, clock, hist>>

\* memoizer, lines 326-328: the read under the lock, and the call of obj
KeepGet(p) ==
    /\ alive[p] /\ pc[p] = "k_get"
    /\ LET r == get(op[p].c, op[p].key)
       IN IF r = PyNone
          THEN /\ fnCalls' = [fnCalls EXCEPT ![op[p].args] = @ + 1]
               /\ pc' = [pc EXCEPT ![p] = "k_fn"]
               /\ UNCHANGED op
          ELSE /\ op' = [op EXCEPT ![p].r = r, ![p].hit = TRUE]
               /\ pc' = [pc EXCEPT ![p] = "release"]
               /\ UNCHANGED fnCalls
    /\ UNCHANGED <<fixed, redis, ret, env, computed, finished, raised>>

\* a memoizer that stores with self.setex, that is Cache.setex, which takes
\* the write lock of the key itself
KeepFnReturnViaSetex(p, v) ==
    /\ alive[p] /\ pc[p] = "k_fn"
    /\ v = fn[op[p].args]
    /\ computed' = [computed EXCEPT ![op[p].args] = v]
    /\ IF _skip(cfg, v)
       THEN /\ op' = [op EXCEPT ![p].r = v]
            /\ pc' = [pc EXCEPT ![p] = "release"]
       ELSE /\ op' = [op EXCEPT ![p].r = v, ![p].val = v,
                                ![p].outer = op[p].lock,
                                ![p].lock = write_lock(op[p].c, op[p].key)]
            /\ pc' = [pc EXCEPT ![p] = "acquire"]
    /\ UNCHANGED <<fixed, redis, ret, env, fnCalls, finished, raised>>

\* memoizer, lines 328-332: obj returns v, which is stored unless skipped
KeepFnReturn(p, v) ==
    /\ alive[p] /\ pc[p] = "k_fn"
    /\ v = fn[op[p].args]
    /\ computed' = [computed EXCEPT ![op[p].args] = v]
    /\ op' = [op EXCEPT ![p].r = v]
    /\ redis' = IF _skip(cfg, v) THEN redis
                ELSE RedisSetEx(redis, get_key(op[p].c, op[p].key),
                                DataEntry(_dumps(cfg, v), TTLOr(op[p].ttl)))
    /\ pc' = [pc EXCEPT ![p] = "release"]
    /\ UNCHANGED <<fixed, ret, env, fnCalls, finished, raised>>

\* memoizer, line 328: obj raises
KeepFnRaise(p) ==
    /\ alive[p] /\ pc[p] = "k_fn"
    /\ op' = [op EXCEPT ![p].exc = "fn"]
    /\ raised' = [raised EXCEPT ![op[p].args] = TRUE]
    /\ pc' = [pc EXCEPT ![p] = "release"]
    /\ UNCHANGED <<fixed, redis, ret, env, fnCalls, computed, finished>>

\* Cache.setex, lines 189-191, entered as setex(key, value, ttl), as
\* set(key, value, ttl=ttl) (lines 219, 231-232) or as cache[key] = value
\* (line 170, with ttl = 0 standing for self._ttl)
SetexStart(p, via, k, v, ttl) ==
    /\ CanStart(p)
    /\ LET call == [NoOp EXCEPT !.kind = via, !.key = k,
                                !.lock = write_lock(DefaultCache, k),
                                !.val = v, !.ttl = TTLOr(ttl)]
       IN IF _skip(cfg, v)
          THEN /\ ret' = [p |-> p, op |-> call, kind |-> "return", v |-> PyZero]
               /\ pc' = [pc EXCEPT ![p] = "done"]
               /\ UNCHANGED op
          ELSE /\ pc' = [pc EXCEPT ![p] = "acquire"]
               /\ op' = [op EXCEPT ![p] = call]
               /\ ret' = NoRet
    /\ UNCHANGED <<fixed, redis, env, hist>>

\* a setex that writes whatever its read under the lock returns
SetexGetThenWrite(p) ==
    /\ alive[p] /\ pc[p] = "s_get"
    /\ pc' = [pc EXCEPT ![p] = "s_set"]
    /\ UNCHANGED <<fixed, redis, op, ret, env, hist>>

\* Cache.setex, lines 192-193 and 195-196: the read under the lock
SetexGet(p) ==
    /\ alive[p] /\ pc[p] = "s_get"
    /\ IF get(op[p].c, op[p].key) = PyNone
       THEN /\ pc' = [pc EXCEPT ![p] = "s_set"]
            /\ UNCHANGED op
       ELSE /\ pc' = [pc EXCEPT ![p] = "release"]
            /\ op' = [op EXCEPT ![p].r = PyNone]
    /\ UNCHANGED <<fixed, redis, ret, env, hist>>

\* Cache.setex, line 194: RedisMap.setex writes the serialized value
SetexSet(p) ==
    /\ alive[p] /\ pc[p] = "s_set"
    /\ redis' = RedisSetEx(redis, get_key(op[p].c, op[p].key),
                           DataEntry(_dumps(cfg, op[p].val), op[p].ttl))
    /\ op' = [op EXCEPT ![p].r = PyTrue]
    /\ pc' = [pc EXCEPT ![p] = "release"]
    /\ UNCHANGED <<fixed, ret, env, hist>>

\* Cache.get(key) called on its own
Get(p, k) ==
    /\ CanStart(p)
    /\ ret' = [p |-> p, op |-> [NoOp EXCEPT !.kind = "get", !.key = k],
               kind |-> "return", v |-> get(DefaultCache, k)]
    /\ pc' = [pc EXCEPT ![p] = "done"]
    /\ UNCHANGED <<fixed, redis, op, env, hist>>

\* "not result" of Python
Falsy(v) == Empty(v) \/ v = PyZero

\* the usage the docstrings of read_lock and write_lock show: the with-block
\* is entered for the lock of role on name k; v is what
\* get_some_expensive_data() will return
ManualStart(p, role, k, v) ==
    /\ CanStart(p)
    /\ pc' = [pc EXCEPT ![p] = "acquire"]
    /\ op' = [op EXCEPT ![p] =
                 [NoOp EXCEPT !.kind = "manual", !.role = role, !.key = k,
                              !.lock = IF role = "read"
                                       THEN read_lock(DefaultCache, k)
                                       ELSE write_lock(DefaultCache, k),
                              !.val = v]]
    /\ ret' = NoRet
    /\ UNCHANGED <<fixed, redis, env, hist>>

\* read_lock docstring, line 67: result = rc.get(key); write_lock docstring,
\* lines 76-79: result = rc.get(key) and, if not result, rc.set(key, result)
\* with the computed result, which enters Cache.setex (lines 189-191) inside
\* the with-block
ManualGet(p) ==
    /\ alive[p] /\ pc[p] = "m_get"
    /\ LET r == get(op[p].c, op[p].key)
       IN IF op[p].role = "read" \/ ~Falsy(r)
          THEN /\ op' = [op EXCEPT ![p].r = r]
               /\ pc' = [pc EXCEPT ![p] = "release"]
          ELSE IF _skip(cfg, op[p].val)
          THEN /\ op' = [op EXCEPT ![p].r = op[p].val]
               /\ pc' = [pc EXCEPT ![p] = "release"]
          ELSE /\ op' = [op EXCEPT ![p].r = op[p].val,
                                   ![p].outer = op[p].lock,
                                   ![p].lock = write_lock(op[p].c, op[p].key),
                                   ![p].ttl = DefaultTTL]
               /\ pc' = [pc EXCEPT ![p] = "acquire"]
    /\ UNCHANGED <<fixed, redis, ret, env, hist>>

\* a release that is skipped when the with-block raised (acquire and release
\* called by hand, without try/finally)
ReleaseUnlessRaised(p) ==
    /\ alive[p] /\ pc[p] = "release"
    /\ redis' = IF Owns(p, op[p].lock) /\ op[p].exc = ""
                THEN RedisDel(redis, {op[p].lock}) ELSE redis
    /\ ret' = IF op[p].exc # "" THEN Raise(p, op[p].exc) ELSE Return(p, op[p].r)
    /\ finished' = IF op[p].kind = "keep" /\ ret'.kind = "return"
                   THEN [finished EXCEPT ![op[p].args] = TRUE]
                   ELSE finished
    /\ pc' = [pc EXCEPT ![p] = "done"]
    /\ op' = [op EXCEPT ![p] = NoOp]
    /\ UNCHANGED <<fixed, env, fnCalls, computed, raised>>

\* Lock.__exit__: release() deletes the lock key if it still holds this
\* lock's id and raises NotAcquired otherwise; then the call returns, the
\* exception of the with-block propagates, or the enclosing with-block of
\* the caller is left in turn
Release(p) ==
    /\ alive[p] /\ pc[p] = "release"
    /\ redis' = IF Owns(p, op[p].lock) THEN RedisDel(redis, {op[p].lock}) ELSE redis
    /\ LET err == IF op[p].exc # "" THEN op[p].exc
                  ELSE IF ~Owns(p, op[p].lock) THEN "NotAcquired"
                  ELSE ""
       IN IF op[p].outer # <<>>
          THEN /\ op' = [op EXCEPT ![p].lock = op[p].outer, ![p].outer = <<>>,
                                   ![p].r = op[p].val, ![p].exc = err]
               /\ UNCHANGED <<pc, ret, finished>>
          ELSE /\ ret' = IF err # "" THEN Raise(p, err) ELSE Return(p, op[p].r)
               /\ finished' = IF op[p].kind = "keep" /\ err = ""
                              THEN [finished EXCEPT ![op[p].args] = TRUE]
                              ELSE finished
               /\ pc' = [pc EXCEPT ![p] = "done"]
               /\ op' = [op EXCEPT ![p] = NoOp]
    /\ UNCHANGED <<fixed, env, fnCalls, computed, raised>>

----------------------------------------------------------------------------
(* The batched operations, delete and flush, on several Cache instances *)

\* Cache('2', prefix="redis-cache:bucket") of the usage docstring
Cache2 == NewCache(<<"2">>, <<"redis-cache", ":", "bucket">>)

\* an instance whose prefix is the key_prefix of the default instance
NestedCache == NewCache(<<"x">>, <<"redis-cache", ":", "bucket", ":", "1">>)

Caches == {DefaultCache, Cache2, NestedCache}

\* user keys of the batched operations
MapKeys == {<<"test">>, <<"x", ":", "test">>}

\* a Python list of results
PyResults(vs) == [t |-> "results", s |-> vs]

\* Cache.get(*keys, default=default) with more than one key, lines 275-280
GetMany(p, c, ks, default) ==
    /\ CanStart(p)
    /\ LET results == mget(c, ks)
           call == [NoOp EXCEPT !.kind = "getmany", !.c = c, !.keys = ks,
                                !.val = default]
       IN ret' = [p |-> p, op |-> call, kind |-> "return",
                  v |-> PyResults(IF ~Falsy(default)
                                  THEN [i \in 1..Len(ks) |->
                                          IF results[i] # PyNone THEN results[i]
                                          ELSE default]
                                  ELSE results)]
    /\ pc' = [pc EXCEPT ![p] = "done"]
    /\ UNCHANGED <<fixed, redis, op, env, hist>>

\* the values of vs that are not skipped
RECURSIVE Kept(_)
Kept(vs) ==
    IF vs = <<>> THEN <<>>
    ELSE (IF _skip(cfg, vs[1]) THEN <<>> ELSE <<vs[1]>>) \o Kept(Tail(vs))

\* Cache.set with more than one pair, lines 219-229, entered as set(...) or
\* as update(kvs, ttl) with more than one pair (lines 258-263)
SetMany(p, via, c, ks, vs, ttl) ==
    /\ CanStart(p)
    /\ Len(ks) = Len(vs) /\ Len(ks) > 1
    /\ redis' = PipeSetEx(redis, c, ks, vs, TTLOr(ttl))
    /\ ret' = [p |-> p,
               op |-> [NoOp EXCEPT !.kind = via, !.c = c, !.keys = ks,
                                   !.vals = vs, !.ttl = TTLOr(ttl)],
               kind |-> "return",
               v |-> PyResults([i \in 1..Len(Kept(vs)) |-> PyTrue])]
    /\ pc' = [pc EXCEPT ![p] = "done"]
    /\ UNCHANGED <<fixed, op, env, hist>>

\* Cache.delete = RedisMap.remove(key) and del cache[key] (lines 178-180):
\* DEL of the store key
Delete(p, via, c, k) ==
    /\ CanStart(p)
    /\ redis' = RedisDel(redis, {get_key(c, k)})
    /\ ret' = [p |-> p,
               op |-> [NoOp EXCEPT !.kind = via, !.c = c, !.key = k],
               kind |-> "return",
               v |-> IF via = "delitem" THEN PyNone
                     ELSE IF Present(get_key(c, k)) THEN PyInt(<<"1">>) ELSE PyZero]
    /\ pc' = [pc EXCEPT ![p] = "done"]
    /\ UNCHANGED <<fixed, op, env, hist>>

\* Cache.flush = RedisMap.clear: scans for key_prefix:* and deletes what
\* it finds
Flush(p, c) ==
    /\ CanStart(p)
    /\ redis' = RedisDel(redis, ScanKeys(redis, c))
    /\ ret' = [p |-> p, op |-> [NoOp EXCEPT !.kind = "flush", !.c = c],
               kind |-> "return", v |-> PyNone]
    /\ pc' = [pc EXCEPT ![p] = "done"]
    /\ UNCHANGED <<fixed, op, env, hist>>

----------------------------------------------------------------------------
(* Time, the lock's auto-renewal and the death of a caller *)

\* redis_lock renews every 2/3 of expire; a tick is the common measure
RenewalInterval == (LockExpire * 2) \div 3
TickSeconds == LockExpire - RenewalInterval

\* the renewal thread of a live holder has the extension of lock key k due
RenewalDue(p, k) ==
    /\ alive[p] /\ k \in Scopes(p) /\ Owns(p, k)
    /\ LockExpire - redis[k].ttl >= RenewalInterval

\* Lock(..., expire=60, auto_renewal=True): the renewal thread extends the
\* lock to its full expiry
Renew(p) ==
    /\ \E k \in Scopes(p) :
          /\ RenewalDue(p, k)
          /\ redis' = [redis EXCEPT ![k].ttl = LockExpire]
    /\ UNCHANGED <<fixed, pc, op, ret, env, hist>>

\* time passes, but lock keys have no expiry: only data entries run out
TickLocksForever ==
    /\ clock < MaxTicks
    /\ \A p \in Procs : \A k \in Scopes(p) : ~RenewalDue(p, k)
    /\ clock' = clock + 1
    /\ LET gone == {k \in DOMAIN redis : redis[k].owner = 0 /\ redis[k].ttl <= TickSeconds}
       IN redis' = [k \in DOMAIN redis \ gone |->
                       IF redis[k].owner = 0
                       THEN [redis[k] EXCEPT !.ttl = @ - TickSeconds]
                       ELSE redis[k]]
    /\ waited' = [p \in Procs |->
                    IF alive[p] /\ pc[p] = "acquire" /\ waited[p] <= LockExpire
                    THEN waited[p] + TickSeconds ELSE waited[p]]
    /\ UNCHANGED <<fixed, pc, op, ret, alive, hist>>

\* time passes: Redis expires the entries whose time to live has run out.
\* A live holder's renewal thread runs before its lock can expire.
Tick ==
    /\ clock < MaxTicks
    /\ \A p \in Procs : \A k \in Scopes(p) : ~RenewalDue(p, k)
    /\ clock' = clock + 1
    /\ LET gone == {k \in DOMAIN redis : redis[k].ttl <= TickSeconds}
       IN redis' = [k \in DOMAIN redis \ gone |->
                       [redis[k] EXCEPT !.ttl = @ - TickSeconds]]
    /\ waited' = [p \in Procs |->
                    IF alive[p] /\ pc[p] = "acquire" /\ waited[p] <= LockExpire
                    THEN waited[p] + TickSeconds ELSE waited[p]]
    /\ UNCHANGED <<fixed, pc, op, ret, alive, hist>>

\* the process of a caller dies while it holds a lock
Die(p) ==
    /\ alive[p] /\ Scopes(p) # {}
    /\ alive' = [alive EXCEPT ![p] = FALSE]
    /\ UNCHANGED <<fixed, redis, pc, op, ret, clock, waited, hist>>

----------------------------------------------------------------------------
(* The memoizer under concurrent callers, with no expiry and no death *)

NextKeep ==
    \/ \E p \in Procs, ttl \in {0, KeepTTL} : KeepStart(p, Arg5, ttl, <<>>, TRUE)
    \/ \E p \in Procs : Acquire(p)
    \/ \E p \in Procs : KeepGet(p)
    \/ \E p \in Procs, v \in Values : KeepFnReturn(p, v)
    \/ \E p \in Procs : KeepFnRaise(p)
    \/ \E p \in Procs : Release(p)

SpecKeep == Init /\ [][NextKeep]_vars

----------------------------------------------------------------------------
(* The locks under concurrent callers, with time, renewal and death *)

InitLock ==
    /\ Init
    /\ cfg = [serializer |-> "json", save_empty |-> FALSE]
    /\ fn[Arg5] = PyInt(<<"5000">>)

NextLock ==
    \/ \E p \in Procs, role \in {"read", "write"}, k \in UserKeys :
          ManualStart(p, role, k, PyStr(<<"best">>))
    \/ \E p \in Procs, k \in UserKeys : SetexStart(p, "setex", k, PyStr(<<"best">>), 0)
    \/ \E p \in Procs : Acquire(p)
    \/ \E p \in Procs : ManualGet(p)
    \/ \E p \in Procs : SetexGet(p)
    \/ \E p \in Procs : SetexSet(p)
    \/ \E p \in Procs : Release(p)
    \/ \E p \in Procs : Renew(p)
    \/ Tick
    \/ \E p \in Procs : Die(p)

SpecLock == InitLock /\ [][NextLock]_vars

----------------------------------------------------------------------------
(* Callers waiting for the write lock of a memoized call or of setex, while
   time passes and the holders' locks are renewed *)

NextWait ==
    \/ \E p \in Procs : KeepStart(p, Arg5, KeepTTL, <<>>, TRUE)
    \/ \E p \in Procs, k \in UserKeys : SetexStart(p, "setex", k, PyStr(<<"best">>), 0)
    \/ \E p \in Procs : Acquire(p)
    \/ \E p \in Procs : KeepGet(p)
    \/ \E p \in Procs, v \in Values : KeepFnReturn(p, v)
    \/ \E p \in Procs : SetexGet(p)
    \/ \E p \in Procs : SetexSet(p)
    \/ \E p \in Procs : Release(p)
    \/ \E p \in Procs : Renew(p)
    \/ Tick

SpecWait == InitLock /\ [][NextWait]_vars

----------------------------------------------------------------------------
(* Memoized calls and setex calls under time, renewal, a function that may
   raise and callers that may die inside the with-block *)

NextGuard ==
    \/ \E p \in Procs : KeepStart(p, Arg5, KeepTTL, <<>>, TRUE)
    \/ \E p \in Procs, k \in UserKeys : SetexStart(p, "setex", k, PyStr(<<"best">>), 0)
    \/ \E p \in Procs : Acquire(p)
    \/ \E p \in Procs : KeepGet(p)
    \/ \E p \in Procs, v \in Values : KeepFnReturn(p, v)
    \/ \E p \in Procs : KeepFnRaise(p)
    \/ \E p \in Procs : SetexGet(p)
    \/ \E p \in Procs : SetexSet(p)
    \/ \E p \in Procs : Release(p)
    \/ \E p \in Procs : Renew(p)
    \/ Tick
    \/ \E p \in Procs : Die(p)

SpecGuard == InitLock /\ [][NextGuard]_vars

----------------------------------------------------------------------------
(* Memoized calls whose lock holder may die: the lock of a dead holder is no
   longer renewed and expires *)

\* ticks after which a lock that is not renewed has expired
ExpiryTicks == LockExpire \div TickSeconds

NextHeal ==
    \/ \E p \in Procs : KeepStart(p, Arg5, KeepTTL, <<>>, TRUE)
    \/ \E p \in Procs : Acquire(p)
    \/ \E p \in Procs : KeepGet(p)
    \/ \E p \in Procs, v \in Values : KeepFnReturn(p, v)
    \/ \E p \in Procs : Release(p)
    \/ \E p \in Procs : Renew(p)
    \/ Tick
    \/ \E p \in Procs : clock + ExpiryTicks <= MaxTicks /\ Die(p)

\* every live caller goes on with its call, the renewal threads run and time
\* passes
FairHeal ==
    /\ \A p \in Procs : WF_vars(Acquire(p))
    /\ \A p \in Procs : WF_vars(KeepGet(p))
    /\ \A p \in Procs : WF_vars(\E v \in Values : KeepFnReturn(p, v))
    /\ \A p \in Procs : WF_vars(Release(p))
    /\ \A p \in Procs : WF_vars(Renew(p))
    /\ WF_vars(Tick)

SpecHeal == InitLock /\ [][NextHeal]_vars /\ FairHeal

----------------------------------------------------------------------------
(* The store operations, one caller at a time *)

\* no other caller is inside a call
Quiet(p) == \A q \in Procs \ {p} : pc[q] \in {"idle", "done"}

NextStore ==
    \/ \E p \in Procs, via \in {"setex", "set", "setitem"}, k \in UserKeys,
          v \in Values, ttl \in {0, KeepTTL} :
          Quiet(p) /\ (via = "setitem" => ttl = 0) /\ SetexStart(p, via, k, v, ttl)
    \/ \E p \in Procs, k \in UserKeys : Quiet(p) /\ Get(p, k)
    \/ \E p \in Procs : Acquire(p)
    \/ \E p \in Procs : SetexGet(p)
    \/ \E p \in Procs : SetexSet(p)
    \/ \E p \in Procs : Release(p)

InitStore == Init /\ fn[Arg5] = PyInt(<<"5000">>)

SpecStore == InitStore /\ [][NextStore]_vars

----------------------------------------------------------------------------
(* Concurrent setex calls on one key with non-empty values, starting from an
   empty store, with no expiry and no delete *)

NonEmpty == {v \in Values : ~Empty(v)}

NextFirst ==
    \/ \E p \in Procs, k \in UserKeys, v \in NonEmpty, ttl \in {0, KeepTTL} :
          SetexStart(p, "setex", k, v, ttl)
    \/ \E p \in Procs : Acquire(p)
    \/ \E p \in Procs : SetexGet(p)
    \/ \E p \in Procs : SetexSet(p)
    \/ \E p \in Procs : Release(p)

SpecFirst == InitStore /\ [][NextFirst]_vars

----------------------------------------------------------------------------
(* Concurrent memoized calls over two keys, every caller scheduled fairly and
   the function returning or raising *)

NextFair ==
    \/ \E p \in Procs, a \in {Arg5, Arg6} : KeepStart(p, a, KeepTTL, <<>>, TRUE)
    \/ \E p \in Procs : Acquire(p)
    \/ \E p \in Procs : KeepGet(p)
    \/ \E p \in Procs, a \in Args : KeepFnReturn(p, fn[a])
    \/ \E p \in Procs : KeepFnRaise(p)
    \/ \E p \in Procs : Release(p)

Fairness ==
    /\ \A p \in Procs : WF_vars(Acquire(p))
    /\ \A p \in Procs : WF_vars(KeepGet(p))
    /\ \A p \in Procs : WF_vars((\E a \in Args : KeepFnReturn(p, fn[a])) \/ KeepFnRaise(p))
    /\ \A p \in Procs : WF_vars(Release(p))

SpecFair == InitStore /\ [][NextFair]_vars /\ Fairness

----------------------------------------------------------------------------
(* The batched operations, delete and flush on a store that holds entries of
   several instances; a flush and a delete may come while an update of one
   pair is inside setex *)

\* the entries an earlier set of 'bar' with the default ttl has left
BarEntry == DataEntry(_dumps(cfg, PyStr(<<"bar">>)), DefaultTTL)

StoreKeys == {get_key(c, k) : c \in Caches, k \in MapKeys}

\* the store holds what earlier sets through the instances have left
InitMap ==
    /\ cfg \in {c \in Configs : ~c.save_empty}
    /\ fn \in {f \in Fns : f[Arg5] = PyInt(<<"5000">>)}
    /\ \E ks \in SUBSET StoreKeys : redis = [x \in ks |-> BarEntry]
    /\ pc = [p \in Procs |-> "idle"]
    /\ op = [p \in Procs |-> NoOp]
    /\ ret = NoRet
    /\ alive = [p \in Procs |-> TRUE]
    /\ clock = 0
    /\ waited = [p \in Procs |-> 0]
    /\ fnCalls = [a \in Args |-> 0]
    /\ computed = [a \in Args |-> NoValue]
    /\ finished = [a \in Args |-> FALSE]
    /\ raised = [a \in Args |-> FALSE]

KeySeqs == {<<a, b>> : a, b \in MapKeys}

NextMap ==
    \/ \E p \in Procs, ks \in KeySeqs, default \in {PyNone, PyZero, PyStr(<<"bar">>)} :
          Quiet(p) /\ GetMany(p, DefaultCache, ks, default)
    \/ \E p \in Procs, via \in {"set", "update"}, c \in {DefaultCache},
          ks \in {q \in KeySeqs : q[1] # q[2]},
          vs \in {<<PyStr(<<"best">>), PyInt(<<"5000">>)>>, <<PyStr(<<>>), PyStr(<<"best">>)>>} :
          Quiet(p) /\ SetMany(p, via, c, ks, vs, KeepTTL)
    \/ \E p \in Procs, k \in MapKeys :
          Quiet(p) /\ SetexStart(p, "update", k, PyStr(<<"best">>), KeepTTL)
    \/ \E p \in Procs, via \in {"delete", "delitem"}, c \in {DefaultCache, NestedCache},
          k \in MapKeys :
          Delete(p, via, c, k)
    \/ \E p \in Procs, c \in Caches : Flush(p, c)
    \/ \E p \in Procs : Acquire(p)
    \/ \E p \in Procs : SetexGet(p)
    \/ \E p \in Procs : SetexSet(p)
    \/ \E p \in Procs : Release(p)

SpecMap == InitMap /\ [][NextMap]_vars

----------------------------------------------------------------------------
(* The memoizer called with different arguments and decorated with different
   prefixes and serialize_args, one caller at a time *)

NextArgs ==
    \/ \E p \in Procs, a \in Args, prefix \in Prefixes, serialize_args \in BOOLEAN :
          Quiet(p) /\ KeepStart(p, a, KeepTTL, prefix, serialize_args)
    \/ \E p \in Procs : Acquire(p)
    \/ \E p \in Procs : KeepGet(p)
    \/ \E p \in Procs, a \in Args : KeepFnReturn(p, fn[a])
    \/ \E p \in Procs : Release(p)

SpecArgs == InitStore /\ [][NextArgs]_vars

----------------------------------------------------------------------------
(* Claims about the memoizer *)

\* C1 (as claimed): a wrapped function whose result may be stored (it is
\* non-empty, or save_empty is set) and that does not raise is invoked at
\* most once for one key, however many callers call it concurrently.
C1_FnInvokedOnce ==
    \A a \in Args : (~_skip(cfg, fn[a]) /\ ~raised[a]) => fnCalls[a] <= 1

\* the entry of the key of caller p's memoized call
KeepEntry(r, p) ==
    LET k == get_key(op[p].c, op[p].key)
    IN IF k \in DOMAIN r THEN <<r[k]>> ELSE <<>>

\* C3: when the wrapped function raises, the memoizer writes nothing, leaves
\* the with-block at once, releases the write lock, and the call ends with
\* the function's exception, the function having run once in that call; the
\* lock key is then free for the next caller.
C3_FnFailure ==
    [][\A p \in Procs :
          /\ (pc[p] = "k_fn" /\ op'[p].exc = "fn")
                => (redis' = redis /\ pc'[p] = "release" /\ fnCalls' = fnCalls)
          /\ (pc[p] = "release" /\ op[p].kind = "keep" /\ op[p].exc = "fn"
                  /\ pc'[p] # pc[p])
                => /\ pc'[p] = "done"
                   /\ ret' = Raise(p, "fn")
                   /\ op[p].lock \notin DOMAIN redis'
                   /\ KeepEntry(redis', p) = KeepEntry(redis, p)
                   /\ fnCalls' = fnCalls]_vars

\* C3 happens: after a call failed with the function's exception, another
\* caller holds the write lock and runs the function itself.
C3_Witness ==
    /\ \E p \in Procs : pc[p] = "done" /\ raised[Arg5]
    /\ \E q \in Procs : pc[q] = "k_fn" /\ Owns(q, op[q].lock) /\ fnCalls[op[q].args] = 2

\* C8 (as claimed): a memoized call that starts after another call with the
\* same arguments has returned never invokes the wrapped function, whatever
\* value that function returns.
C8_LaterCallNeverInvokes == \A p \in Procs : pc[p] = "k_fn" => ~op[p].later

\* C8 (amended): a memoized call that starts after another call with the same
\* arguments has returned invokes the wrapped function only if the function's
\* result is None or empty; with a non-empty result the function has run
\* exactly once when calls have returned.
C8_Idempotent ==
    \A a \in Args :
        /\ \A p \in Procs :
              (pc[p] = "k_fn" /\ op[p].args = a /\ op[p].later) => Empty(fn[a])
        /\ (finished[a] /\ ~raised[a] /\ ~Empty(fn[a])) => fnCalls[a] = 1

\* C8 happens: a later call of a function with a non-empty result has been
\* served from the cache.
C8_Witness ==
    /\ ret.kind = "return" /\ ret.op.kind = "keep" /\ ret.op.later /\ ret.op.hit
    /\ ~Empty(fn[ret.op.args]) /\ fnCalls[ret.op.args] = 1

\* the last finished call was a memoized call served from the cache
Hit == ret.kind = "return" /\ ret.op.kind = "keep" /\ ret.op.hit

\* C9 (as claimed): a memoized call served from the cache returns the value
\* the computing call returned, for every serializer configuration.
C9_SameAsComputed == Hit => ret.v = computed[ret.op.args]

\* what a stored value comes back as
ReadBack(c, v) ==
    CASE c.serializer = "pickle" -> v
      [] c.serializer = "json" -> (IF v.t = "tuple" THEN PyList(v.s) ELSE v)
      [] OTHER -> PyStr(PyStrOf(v))

\* C9 (amended): a memoized call served from the cache returns the computed
\* value as the serializer gives it back: the value itself with a custom
\* (pickle) serializer, the value with tuples turned into lists with the
\* default JSON serializer, and the str() text of the value with
\* serialize=False.
C9_Stable == Hit => ret.v = ReadBack(cfg, computed[ret.op.args])

\* C9 happens: on a cache with serialize=False the call served from the cache
\* returned '5000' for the computed 5000.
C9_Witness ==
    /\ Hit /\ cfg.serializer = "plain"
    /\ computed[ret.op.args] = PyInt(<<"5000">>) /\ ret.v = PyStr(<<"5000">>)

----------------------------------------------------------------------------
(* Claims about the store operations *)

\* no caller is inside a call
AllQuiet == \A q \in Procs : pc[q] \in {"idle", "done"}

\* C2 (as claimed): once set(k, v) or cache[k] = v has returned for a
\* non-empty string v, with no other call in progress, get(k) returns v,
\* whatever k held before.
C2_SetThenGet ==
    (/\ AllQuiet
     /\ ret.kind = "return" /\ ret.op.kind \in {"set", "setitem"}
     /\ ret.op.val.t = "str" /\ ~Empty(ret.op.val))
        => get(DefaultCache, ret.op.key) = ret.op.val

----------------------------------------------------------------------------
(* Claims about the locks *)

\* C4 (as claimed): a caller never stays blocked in the acquisition of the
\* write lock for longer than the lock's bound, its expiry time: it has
\* failed with LockTimeout by then.
C4_BoundedWait ==
    \A p \in Procs : (alive[p] /\ pc[p] = "acquire") => waited[p] <= LockExpire

\* C4 (amended): a memoized call or setex that finds the write lock's key
\* present stays blocked in the acquisition, without failing and without an
\* end to the wait of its own; it enters the with-block only by setting the
\* lock key itself.
C4_BlocksWithoutTimeout ==
    [][\A p \in Procs :
          /\ (pc[p] = "acquire" /\ Present(op[p].lock)) => pc'[p] = "acquire"
          /\ (pc[p] = "acquire" /\ pc'[p] # "acquire")
                => /\ pc'[p] = Body(op[p])
                   /\ op[p].lock \in DOMAIN redis'
                   /\ redis'[op[p].lock].owner = p]_vars

\* C4 happens: a caller has been blocked for longer than the lock's expiry
\* time while a live caller holds the lock.
C4_Witness ==
    \E p, q \in Procs :
        /\ alive[p] /\ pc[p] = "acquire" /\ waited[p] > LockExpire
        /\ alive[q] /\ q # p /\ Owns(q, op[p].lock)

\* C5 (as claimed): a caller is never blocked in the acquisition of a lock
\* whose key holds its own lock id.
C5_NeverBlocksOnOwnLock ==
    \A p \in Procs : ~(alive[p] /\ pc[p] = "acquire" /\ Owns(p, op[p].lock))

\* the lock keys of the write role
IsWriteLock(k) == k # <<>> /\ k[Len(k)] = "write"

\* C6: no two live callers are inside with-blocks of the same write lock.
C6_WriteLockExclusive ==
    \A p, q \in Procs :
        (p # q /\ alive[p] /\ alive[q])
            => \A k \in Scopes(p) \cap Scopes(q) : ~IsWriteLock(k)

\* C6 happens: a caller died inside the with-block of a write lock, the lock
\* expired, and a live caller is inside the with-block of the same lock.
C6_Witness ==
    \E p, q \in Procs :
        /\ ~alive[p] /\ alive[q]
        /\ \E k \in Scopes(p) \cap Scopes(q) : IsWriteLock(k) /\ Owns(q, k)

\* the role of the lock a caller is acquiring, and of a lock key it holds
RoleWanted(p) == IF op[p].outer # <<>> THEN "write" ELSE op[p].role
RoleHeld(q, k) == IF k = op[q].outer THEN op[q].role ELSE RoleWanted(q)

\* C7: the read lock and the write lock of a name are different keys; a
\* caller blocked in an acquisition is blocked by a holder of the same role
\* on the same name only; and no two live callers are inside with-blocks of
\* the same read lock.
C7_ReadWriteIndependent ==
    /\ \A k \in UserKeys : read_lock(DefaultCache, k) # write_lock(DefaultCache, k)
    /\ \A p, q \in Procs :
          (pc[p] = "acquire" /\ op[p].lock \in Scopes(q))
              => (RoleHeld(q, op[p].lock) = RoleWanted(p) /\ op[q].key = op[p].key)
    /\ \A p, q \in Procs :
          (p # q /\ alive[p] /\ alive[q])
              => \A k \in Scopes(p) \cap Scopes(q) : IsWriteLock(k)

\* C7 happens: one caller is inside the with-block of the read lock of a name
\* while another is inside the with-block of the write lock of that name.
C7_Witness ==
    \E p, q \in Procs :
        /\ alive[p] /\ alive[q] /\ op[p].key = op[q].key
        /\ pc[p] = "m_get" /\ op[p].role = "read" /\ Owns(p, op[p].lock)
        /\ InScope(q) /\ IsWriteLock(op[q].lock) /\ Owns(q, op[q].lock)

----------------------------------------------------------------------------
(* Claims about the keys of the memoizer *)

\* C10 (as claimed): a memoized call served from the cache returns an entry
\* that a call with its own arguments computed and stored; it never returns
\* the entry stored for other arguments.
C10_OwnEntry ==
    Hit => (fnCalls[ret.op.args] >= 1 /\ ret.v = ReadBack(cfg, fn[ret.op.args]))

----------------------------------------------------------------------------
(* Claims about progress *)

\* C11: a live caller waiting for the write lock of its memoized call
\* eventually finishes the call (or dies itself), also when the holder of the
\* lock has died inside the with-block: the lock then expires.
C11_StaleLockHeals ==
    \A p \in Procs :
        (alive[p] /\ pc[p] = "acquire") ~> (pc[p] = "done" \/ ~alive[p])

\* C11 happens: a caller died inside the with-block after it had called the
\* function, and another caller has since run the function and returned.
C11_Witness ==
    /\ ret.kind = "return" /\ ret.op.kind = "keep" /\ ~ret.op.hit
    /\ fnCalls[Arg5] = 2
    /\ \E p \in Procs :
          ~alive[p] /\ p # ret.p /\ pc[p] \in {"k_fn", "release"} /\ op[p].lock = ret.op.lock

----------------------------------------------------------------------------
(* Claims about the time to live of entries *)

\* C12 (as claimed): right after set(k, v, ttl=T) or setex(k, v, T) has
\* returned for a non-empty v and T > 0, whatever k held before, the
\* remaining time to live of k is greater than 0 and at most T.
C12_TTLWithin ==
    (/\ AllQuiet
     /\ ret.kind = "return" /\ ret.op.kind \in {"set", "setex"}
     /\ ~Empty(ret.op.val) /\ ret.op.ttl = KeepTTL)
        => (0 < get_ttl(DefaultCache, ret.op.key) /\ get_ttl(DefaultCache, ret.op.key) <= KeepTTL)

----------------------------------------------------------------------------
(* Claims about the skip policy *)

\* C13 (as claimed): after set(k, v) or setex(k, v) has returned for an empty
\* v on a cache with save_empty=False, the call has returned 0 and get(k)
\* returns absent.
C13_SkippedThenAbsent ==
    (/\ AllQuiet /\ ~cfg.save_empty
     /\ ret.kind = "return" /\ ret.op.kind \in {"set", "setex"}
     /\ Empty(ret.op.val))
        => (ret.v = PyZero /\ get(DefaultCache, ret.op.key) = PyNone)

\* the call a caller has just started
Started(p) == IF pc[p] = "done" THEN ret.op ELSE op[p]

\* C13 (amended): on a cache with save_empty=False, set(k, v), setex(k, v)
\* and cache[k] = v with an empty v return 0 at once, without taking the
\* lock, and leave the store as it is: get(k) returns what it returned
\* before.
C13_SkipLeavesStore ==
    [][\A p \in Procs :
          (/\ pc[p] = "idle" /\ pc'[p] # "idle"
           /\ Started(p)'.kind \in {"set", "setex", "setitem"}
           /\ Empty(Started(p)'.val) /\ ~cfg.save_empty)
              => /\ pc'[p] = "done"
                 /\ ret'.kind = "return" /\ ret'.v = PyZero
                 /\ redis' = redis
                 /\ \A k \in UserKeys : get(DefaultCache, k)' = get(DefaultCache, k)]_vars

\* C13 happens: a set of an empty value has been skipped on a key that holds
\* an entry, which get still returns.
C13_Witness ==
    /\ ~cfg.save_empty /\ AllQuiet
    /\ ret.kind = "return" /\ ret.op.kind \in {"set", "setex"} /\ ret.v = PyZero
    /\ ret.op.val = PyStr(<<>>)
    /\ get(DefaultCache, ret.op.key) # PyNone

----------------------------------------------------------------------------
(* Claims about flush, delete and the batched operations *)

\* what the store r holds under the store key x
EntryOf(r, x) == IF x \in DOMAIN r THEN <<r[x]>> ELSE <<>>

\* the lock keys of the store r
LockKeys(r) == {x \in DOMAIN r : r[x].owner # 0}

\* caller p makes the whole call of kind in this step
Calls(p, kind) == pc[p] = "idle" /\ pc'[p] = "done" /\ ret'.p = p /\ ret'.op.kind = kind

\* C14 (as claimed): flush() on an instance leaves every key of that
\* instance absent, and leaves unchanged the entries of every instance with
\* another prefix or name, and all lock keys.
C14_FlushIsolated ==
    [][\A p \in Procs, c \in Caches :
          (Calls(p, "flush") /\ ret'.op.c = c)
              => /\ \A k \in MapKeys : get(c, k)' = PyNone
                 /\ \A d \in Caches \ {c} : \A k \in MapKeys :
                       EntryOf(redis', get_key(d, k)) = EntryOf(redis, get_key(d, k))
                 /\ \A x \in LockKeys(redis) : EntryOf(redis', x) = EntryOf(redis, x)]_vars

\* C15: a delete(k) or del cache[k] returns without an error, get(k) then
\* returns None, and what the store holds under other keys is unchanged.
C15_DeleteThenGet ==
    [][\A p \in Procs, c \in Caches, k \in MapKeys :
          (/\ Calls(p, "delete") \/ Calls(p, "delitem")
           /\ ret'.op.c = c /\ ret'.op.key = k)
              => /\ ret'.kind = "return"
                 /\ get(c, k)' = PyNone
                 /\ DOMAIN redis' \subseteq DOMAIN redis
                 /\ \A x \in DOMAIN redis \ {get_key(c, k)} :
                       EntryOf(redis', x) = EntryOf(redis, x)]_vars

\* C15 happens: a delete has removed an entry, get returns None for its key,
\* and the store still holds other entries.
C15_Witness ==
    /\ ret.kind = "return" /\ ret.op.kind = "delete" /\ ret.v = PyInt(<<"1">>)
    /\ get(ret.op.c, ret.op.key) = PyNone
    /\ \E x \in DOMAIN redis : redis[x].owner = 0

\* C16 (as claimed): get(k1, ..., kn) with n >= 2 returns a list of n
\* results in the order of the keys: at position i what get(ki) returns if ki
\* is present, else the supplied default (None if none is supplied), whatever
\* the other keys hold.
C16_BatchedGet ==
    (ret.kind = "return" /\ ret.op.kind = "getmany")
        => /\ ret.v.t = "results"
           /\ Len(ret.v.s) = Len(ret.op.keys)
           /\ \A i \in 1..Len(ret.op.keys) :
                 ret.v.s[i] = IF get(ret.op.c, ret.op.keys[i]) # PyNone
                              THEN get(ret.op.c, ret.op.keys[i])
                              ELSE ret.op.val

\* the keys and the values of the pairs of a set or update call
PairKeys(o) == IF o.keys = <<>> THEN <<o.key>> ELSE o.keys
PairVals(o) == IF o.keys = <<>> THEN <<o.val>> ELSE o.vals

\* C17 (as claimed): after update(mapping, ttl=T) has returned, for a mapping
\* of one pair or more with non-empty values and no other call in progress,
\* every key of the mapping holds its value with time to live T, whether or
\* not the key existed before.
C17_UpdateOverwrites ==
    (/\ AllQuiet
     /\ ret.kind = "return" /\ ret.op.kind = "update"
     /\ \A i \in 1..Len(PairVals(ret.op)) : ~Empty(PairVals(ret.op)[i]))
        => \A i \in 1..Len(PairKeys(ret.op)) :
              /\ get(ret.op.c, PairKeys(ret.op)[i]) = ReadBack(cfg, PairVals(ret.op)[i])
              /\ get_ttl(ret.op.c, PairKeys(ret.op)[i]) = ret.op.ttl

----------------------------------------------------------------------------
(* Claims about the namespaces *)

\* C18 (as claimed): two instances with different (name, prefix) never make
\* the same store key, so a batched set through one instance changes nothing
\* of what get returns through another.
C18_NamespacesSeparate ==
    [][\A p \in Procs, c \in Caches, d \in Caches :
          (Calls(p, "set") /\ ret'.op.c = c /\ d # c)
              => /\ \A k \in MapKeys : get(d, k)' = get(d, k)
                 /\ \A k \in MapKeys, j \in MapKeys : get_key(c, k) # get_key(d, j)]_vars

----------------------------------------------------------------------------
(* Claims about the progress of the memoizer *)

\* C19: a memoized call never waits for a lock while it holds one or is
\* inside a with-block, and every memoized call that has started eventually
\* returns or raises.
C19_MemoizerNoDeadlock ==
    /\ [](\A p \in Procs :
             pc[p] = "acquire"
                => (Scopes(p) = {} /\ \A k \in DOMAIN redis : redis[k].owner # p))
    /\ \A p \in Procs : (pc[p] # "idle") ~> (pc[p] = "done")

\* C19 happens: two memoized calls of the same key ran at the same time and
\* both have returned, the function having run once.
C19_Witness ==
    /\ \A p \in Procs : pc[p] = "done"
    /\ ret.kind = "return" /\ ret.op.kind = "keep" /\ ret.p = NumProcs
    /\ ~Empty(fn[ret.op.args]) /\ fnCalls[ret.op.args] = 1
    /\ ret.op.hit /\ ~ret.op.later /\ ret.op.r # NoValue

\* C20 (as claimed): a memoized call that finds its key present at its first
\* read returns the stored value in that step, without taking the write lock
\* and without invoking the function, whoever holds the write lock.
C20_HotPath ==
    [][\A p \in Procs, a \in Args :
          (/\ pc[p] = "idle" /\ pc'[p] # "idle"
           /\ Started(p)'.kind = "keep" /\ Started(p)'.args = a
           /\ Present(get_key(DefaultCache, KeepKey(<<>>, TRUE, a))))
              => /\ pc'[p] = "done"
                 /\ ret'.kind = "return"
                 /\ ret'.v = GetItem(DefaultCache, KeepKey(<<>>, TRUE, a))
                 /\ fnCalls' = fnCalls
                 /\ redis' = redis]_vars

----------------------------------------------------------------------------
(* Claims about the lock discipline *)

\* the write lock of the key of caller p's call
OwnLock(p) == write_lock(op[p].c, op[p].key)

\* C21: a live caller that is executing the function of the memoizer, or is
\* at the store write of the memoizer or of setex, holds the write lock of
\* its key; the function is invoked and an entry is written only by a caller
\* that holds the write lock of the entry's key; a caller whose call has
\* returned or failed holds no lock.
C21_LockDiscipline ==
    /\ [](\A p \in Procs :
             /\ (alive[p] /\ pc[p] \in {"k_fn", "s_set"})
                   => (op[p].lock = OwnLock(p) /\ Owns(p, OwnLock(p)))
             /\ pc[p] \in {"idle", "done"}
                   => \A k \in DOMAIN redis : redis[k].owner # p)
    /\ [][/\ fnCalls' # fnCalls
                => \E p \in Procs :
                      alive[p] /\ pc[p] = "k_get" /\ Owns(p, OwnLock(p))
          /\ \A x \in DOMAIN redis' :
                (redis'[x].owner = 0 /\ clock' = clock /\ EntryOf(redis, x) # <<redis'[x]>>)
                   => \E p \in Procs :
                         /\ alive[p] /\ pc[p] \in {"k_fn", "s_set"}
                         /\ x = get_key(op[p].c, op[p].key)
                         /\ Owns(p, OwnLock(p))]_vars

\* C21 happens: a caller is executing the function under its write lock,
\* which has been renewed, while another caller waits for that lock.
C21_Witness ==
    \E p, q \in Procs :
       /\ alive[p] /\ pc[p] = "k_fn" /\ Owns(p, OwnLock(p))
       /\ alive[q] /\ pc[q] = "acquire" /\ op[q].lock = OwnLock(p)
       /\ clock >= 2 /\ redis[OwnLock(p)].ttl = LockExpire

\* the entry that caller p's setex writes
Written(p) == <<DataEntry(_dumps(cfg, op[p].val), op[p].ttl)>>

\* C22: of concurrent setex calls on one key with non-empty values, starting
\* with the key absent, the caller that holds the write lock while the key is
\* absent is the only one that writes, and no call has got past its read
\* before that write; the entry is written once, as that caller's value and
\* TTL, and never changes afterwards; the writer returns the result of the
\* write and every call that found the entry returns None without writing.
C22_FirstWriterWins ==
    /\ [](\A k \in UserKeys :
             /\ \A p \in Procs : pc[p] \in {"release", "done"}
                                    => Present(get_key(DefaultCache, k))
             /\ \A p \in Procs : pc[p] = "s_set"
                                    => ~Present(get_key(DefaultCache, k)))
    /\ [][\A k \in UserKeys : \A p \in Procs :
             LET x == get_key(DefaultCache, k)
             IN /\ EntryOf(redis', x) # EntryOf(redis, x)
                      => /\ EntryOf(redis, x) = <<>>
                         /\ \E q \in Procs :
                               /\ pc[q] = "s_set" /\ Owns(q, OwnLock(q))
                               /\ EntryOf(redis', x) = Written(q)
                               /\ op'[q].r = PyTrue
                /\ (pc[p] = "s_get" /\ pc'[p] # "s_get" /\ Present(x))
                      => (pc'[p] = "release" /\ op'[p].r = PyNone)
                /\ (pc[p] = "release" /\ pc'[p] = "done")
                      => (ret' = Return(p, op[p].r) /\ op[p].r \in {PyNone, PyTrue})]_vars

\* C22 happens: every caller's setex has returned, the last of them with
\* None, and the entry is not the one that call would have written.
C22_Witness ==
    /\ \A p \in Procs : pc[p] = "done"
    /\ ret.kind = "return" /\ ret.op.kind = "setex" /\ ret.v = PyNone
    /\ \E k \in UserKeys :
          /\ Present(get_key(DefaultCache, k))
          /\ redis[get_key(DefaultCache, k)]
                # DataEntry(_dumps(cfg, ret.op.val), ret.op.ttl)

====
